---- MODULE Spec2Model ----
\* A model of the first-fit free-list allocator of cs241-sp13-alloc:
\* malloc / calloc / free / realloc over one sbrk-grown heap.
\* The repository holds two builds of it: the canonical one,
\* src/unnamed/part_000 (metadata with _data_size, free() prepends to the
\* free list), and src/alloc.c (no _data_size, free() inserts in address
\* order, realloc handles only its two edge cases).
EXTENDS Integers, Sequences, FiniteSets, TLC

\* ------------------------------------------------------------------ constants
NULL == 0
\* sizeof(metadata): three 8-byte fields (size_t, size_t, pointer) on LP64
HeaderSize == 24
\* the program break before the allocator's first sbrk call
HeapBase == 4096
\* (void *) -1, what sbrk returns when it cannot grow the heap
SBRK_FAILED == -1
\* "return value" of a call that never returned (the process trapped)
NO_RETURN == -2

\* ------------------------------------------------------------------ bounds
\* largest request size (bytes) the caller passes
MaxSize == 2
\* bytes the platform lets the heap grow to (sbrk fails beyond them):
\* room for three of the largest blocks, in the part_000 build ...
HeapLimit == 75
\* ... and in the src/alloc.c build, whose headers are shorter
AllocHeapLimit == 54

Sizes == 0..MaxSize
\* A payload byte is modelled as zero or non-zero.
Bytes == {0, 1}

VARIABLES
    build,    \* which of the two source files is linked in
    _start,   \* static char *_start: heap origin, NULL until the first malloc
    _head,    \* static metadata *_head: head of the free list
    brk,      \* the program break (state of the Heap Extender, sbrk)
    hdr,      \* header address -> metadata record, for every carved block
    mem,      \* header address -> payload bytes of that block (1.._size)
    fault,    \* the process trapped on a store through an invalid pointer
    live,     \* payload pointers the caller currently owns
    op,       \* the last call made
    argPtr,   \* its pointer argument (NULL when it has none)
    argSize,  \* its size argument (num * size for calloc, 0 when it has none)
    ret,      \* its return value
    justFreed, \* after malloc: the pointer the call right before it released
               \* (NULL when that call was not a free)
    walk      \* the call in progress and where its loop stands (Idle between
              \* calls; used when the calls are taken one loop turn at a time)

vars == <<build, _start, _head, brk, hdr, mem, fault, live, op, argPtr, argSize, ret,
          justFreed, walk>>

\* The allocator's memory as one value, so that the C functions compose.
\* lim is the limit the platform puts on the heap of this run.
Cur == [start |-> _start, head |-> _head, brk |-> brk, hdr |-> hdr, mem |-> mem,
        lim |-> IF build = "alloc.c" THEN AllocHeapLimit ELSE HeapLimit]

\* What a call hands back: the memory after it, its return value, and
\* whether it trapped instead of returning.
Out(S, r) == [S |-> S, ret |-> r, fault |-> FALSE]
Trap(S) == [S |-> S, ret |-> NO_RETURN, fault |-> TRUE]

\* ------------------------------------------------------------------ sbrk
\* sbrk(n): returns the old break and advances it by n; on failure
\* returns (void *) -1 and leaves the break alone.  It fails when the
\* platform has no memory to give (ok is FALSE) and always when the heap
\* would pass its limit.  sbrk(0) only reads the break.
sbrk(S, n, ok) ==
    IF n = 0 THEN [S |-> S, ret |-> S.brk]
    ELSE IF ok /\ S.brk + n <= HeapBase + S.lim
    THEN [S |-> [S EXCEPT !.brk = @ + n], ret |-> S.brk]
    ELSE [S |-> S, ret |-> SBRK_FAILED]

\* Memory newly obtained from sbrk reads as zero (the break is never lowered).
FreshHeader == [_size |-> 0, _data_size |-> 0, _next |-> NULL]
FreshBytes(n) == [i \in 1..n |-> 0]

min(a, b) == IF a < b THEN a ELSE b

\* ------------------------------------------------------------------ malloc
\* Lines 94-99 and 131-134: the header is built at data, the value sbrk
\* returned; a store through (void *) -1 traps.  S is the memory after sbrk.
\* first is TRUE on the path of lines 90-100, which also assigns _next.
malloc_carve(S, data, size, first) ==
    IF data = SBRK_FAILED
    THEN Trap(S)
    ELSE Out([S EXCEPT
                !.hdr = data :> [FreshHeader EXCEPT
                                    !._next = IF first THEN NULL ELSE @,
                                    !._size = size,
                                    !._data_size = size] @@ @,
                !.mem = data :> FreshBytes(size) @@ @],
             data + HeaderSize)

malloc_sbrk(g, size, first) == malloc_carve(g.S, g.ret, size, first)

\* malloc_first asking sbrk for one byte more than header and payload.
malloc_first_padded(S, size, ok) ==
    malloc_sbrk(sbrk([S EXCEPT !.start = sbrk(S, 0, TRUE).ret],
                     size + HeaderSize + 1, ok),
                size, TRUE)

\* Lines 90-100: the heap is empty.
malloc_first(S, size, ok) ==
    malloc_sbrk(sbrk([S EXCEPT !.start = sbrk(S, 0, TRUE).ret],
                     size + HeaderSize, ok),
                size, TRUE)

\* malloc_grow asking sbrk for the payload alone, the header forgotten.
malloc_grow_short(S, size, ok) ==
    malloc_sbrk(sbrk(S, size, ok), size, FALSE)

\* Lines 130-134: no free block is large enough; _next is not assigned.
malloc_grow(S, size, ok) ==
    malloc_sbrk(sbrk(S, size + HeaderSize, ok), size, FALSE)

\* unlink cutting the list at prev instead of bridging over curr.
unlink_cut(S, curr, prevp) ==
    IF prevp # NULL
    THEN [S EXCEPT !.hdr[prevp]._next = NULL]
    ELSE S

\* Lines 108-121: curr is big enough: unlink it (lines 111-112), move
\* the head past it (lines 115-116) and hand it out (lines 118-120).
unlink(S, curr, prevp) ==
    IF prevp # NULL
    THEN [S EXCEPT !.hdr[prevp]._next = S.hdr[curr]._next]
    ELSE S

\* pop leaving the head on the block that is handed out.
pop_stay(S, curr) == S

pop(S, curr) ==
    IF curr = S.head
    THEN [S EXCEPT !.head = S.hdr[curr]._next]
    ELSE S

malloc_take(S, size, curr, prevp) ==
    Out([pop(unlink(S, curr, prevp), curr) EXCEPT
            !.hdr[curr]._next = NULL,
            !.hdr[curr]._data_size = size],
        curr + HeaderSize)

\* malloc_walk taking the head of the free list whatever its capacity.
malloc_walk_anyfit(S, size, ok, curr, prevp) ==
    IF curr = NULL THEN malloc_grow(S, size, ok)
    ELSE malloc_take(S, size, curr, prevp)

\* Lines 105-124: the first-fit walk of the free list.
RECURSIVE malloc_walk(_, _, _, _, _)
malloc_walk(S, size, ok, curr, prevp) ==
    IF curr = NULL THEN malloc_grow(S, size, ok)
    ELSE IF S.hdr[curr]._size >= size
         THEN malloc_take(S, size, curr, prevp)
         ELSE malloc_walk(S, size, ok, S.hdr[curr]._next, curr)

\* Lines 88-135.
malloc(S, size, ok) ==
    IF S.start = NULL THEN malloc_first(S, size, ok)
    ELSE malloc_walk(S, size, ok, S.head, NULL)

\* ------------------------------------------------------------------ calloc
memset(S, ptr, n) ==
    [S EXCEPT !.mem[ptr - HeaderSize] =
        [i \in DOMAIN @ |-> IF i <= n THEN 0 ELSE @[i]]]

\* calloc returning what malloc gave it without the memset.
calloc_fill_unset(m, n) == m

\* Lines 36-39, with ptr the result m of malloc(num * size).
calloc_fill(m, n) ==
    IF m.fault THEN m
    ELSE IF m.ret # NULL THEN Out(memset(m.S, m.ret, n), m.ret)
    ELSE m

\* Lines 31-40.
calloc(S, num, size, ok) == calloc_fill(malloc(S, num * size, ok), num * size)

\* free linking the block behind the head instead of making it the head.
free_behind_head(S, ptr) ==
    IF ptr = NULL THEN S
    ELSE IF S.head = NULL
    THEN [S EXCEPT !.hdr[ptr - HeaderSize]._data_size = 0,
                   !.head = ptr - HeaderSize]
    ELSE [S EXCEPT !.hdr[ptr - HeaderSize]._data_size = 0,
                   !.hdr[ptr - HeaderSize]._next = S.hdr[S.head]._next,
                   !.hdr[S.head]._next = ptr - HeaderSize]

\* ------------------------------------------------------------------ free
\* free without the null test of lines 157-158.
free_unchecked(S, ptr) ==
    [S EXCEPT !.hdr = [h \in DOMAIN @ |->
                         IF h = ptr - HeaderSize
                         THEN [@[h] EXCEPT !._data_size = 0,
                                           !._next = IF S.head = NULL THEN @ ELSE S.head]
                         ELSE @[h]],
              !.head = ptr - HeaderSize]

\* free making the block the head without linking the old head behind it.
free_unlinked(S, ptr) ==
    IF ptr = NULL THEN S
    ELSE [S EXCEPT !.hdr[ptr - HeaderSize]._data_size = 0,
                   !.head = ptr - HeaderSize]

\* free linking the block to itself instead of to the old head.
free_self_linked(S, ptr) ==
    IF ptr = NULL THEN S
    ELSE [S EXCEPT !.hdr[ptr - HeaderSize]._data_size = 0,
                   !.hdr[ptr - HeaderSize]._next = ptr - HeaderSize,
                   !.head = ptr - HeaderSize]

\* Lines 154-203.
free(S, ptr) ==
    IF ptr = NULL THEN S
    ELSE IF S.head = NULL
    THEN [S EXCEPT !.hdr[ptr - HeaderSize]._data_size = 0,
                   !.head = ptr - HeaderSize]
    ELSE [S EXCEPT !.hdr[ptr - HeaderSize]._data_size = 0,
                   !.hdr[ptr - HeaderSize]._next = S.head,
                   !.head = ptr - HeaderSize]

\* ------------------------------------------------------------------ realloc
\* memmove stopping one byte short.
memmove_short(S, dst, src, n) ==
    [S EXCEPT !.mem[dst - HeaderSize] =
        [i \in DOMAIN @ |-> IF i < n THEN S.mem[src - HeaderSize][i] ELSE @[i]]]

memmove(S, dst, src, n) ==
    [S EXCEPT !.mem[dst - HeaderSize] =
        [i \in DOMAIN @ |-> IF i <= n THEN S.mem[src - HeaderSize][i] ELSE @[i]]]

\* realloc_copy resizing in place whatever the block's capacity.
realloc_copy_in_place(S, return_ptr, ptr, size, data) ==
    Out([S EXCEPT !.hdr[ptr - HeaderSize]._data_size = size], ptr)

\* Lines 271-282, with return_ptr the result m of malloc(size) and data
\* the header of ptr.
realloc_copy(S, return_ptr, ptr, size, data) ==
    IF size >= data._data_size /\ size <= data._size
    THEN Out([S EXCEPT !.hdr[ptr - HeaderSize]._data_size = size], ptr)
    ELSE Out(free(memmove(S, return_ptr, ptr, min(data._data_size, size)), ptr),
             return_ptr)

\* Line 270: a malloc that trapped never comes back to realloc.
realloc_move(m, ptr, size) ==
    IF m.fault THEN m
    ELSE realloc_copy(m.S, m.ret, ptr, size, m.S.hdr[ptr - HeaderSize])

\* realloc testing size == 0 before ptr == NULL.
realloc_zero_first(S, ptr, size, ok) ==
    IF size = 0 THEN Out(free(S, ptr), NULL)
    ELSE IF ptr = NULL THEN malloc(S, size, ok)
    ELSE realloc_move(malloc(S, size, ok), ptr, size)

\* Lines 255-283.
realloc(S, ptr, size, ok) ==
    IF ptr = NULL THEN malloc(S, size, ok)
    ELSE IF size = 0 THEN Out(free(S, ptr), NULL)
    ELSE realloc_move(malloc(S, size, ok), ptr, size)

\* ------------------------------------------------------------------ actions
\* No call is in progress.
Idle == [name |-> "none", ptr |-> NULL, size |-> 0,
         curr |-> NULL, prevp |-> NULL, seen |-> <<>>]

\* A call that handed back r leaves the caller owning the pointers owned.
Commit(r, name, ptr, size, owned) ==
    /\ build' = build
    /\ walk' = Idle
    /\ _start' = r.S.start
    /\ _head' = r.S.head
    /\ brk' = r.S.brk
    /\ hdr' = r.S.hdr
    /\ mem' = r.S.mem
    /\ fault' = r.fault
    /\ live' = IF r.fault THEN live ELSE owned \ {NULL}
    /\ op' = name
    /\ argPtr' = ptr
    /\ argSize' = size
    /\ ret' = r.ret
    /\ justFreed' = IF name = "malloc" /\ op = "free" THEN argPtr ELSE NULL

Returned(r, name, ptr, size, gone) ==
    Commit(r, name, ptr, size, (live \ gone) \cup {r.ret})

Malloc ==
    \E size \in Sizes, ok \in BOOLEAN :
        /\ build = "part_000"
        /\ ~fault
        /\ Returned(malloc(Cur, size, ok), "malloc", NULL, size, {})

Calloc ==
    \E num \in Sizes, size \in Sizes, ok \in BOOLEAN :
        /\ build = "part_000"
        /\ ~fault
        /\ num * size <= MaxSize
        /\ Returned(calloc(Cur, num, size, ok), "calloc", NULL, num * size, {})

Free ==
    \E ptr \in live \cup {NULL} :
        /\ build = "part_000"
        /\ ~fault
        /\ Returned(Out(free(Cur, ptr), NULL), "free", ptr, 0, {ptr})

\* A call that returns ptr itself (in place) leaves ptr owned.
Realloc ==
    \E ptr \in live \cup {NULL}, size \in Sizes, ok \in BOOLEAN :
        /\ build = "part_000"
        /\ ~fault
        /\ Returned(realloc(Cur, ptr, size, ok), "realloc", ptr, size, {ptr})

\* The caller stores byte b at offset i of a block it owns, inside the
\* size it asked for.
Store ==
    \E ptr \in live, b \in Bytes :
        \E i \in 1..hdr[ptr - HeaderSize]._data_size :
            /\ build = "part_000"
            /\ ~fault
            /\ mem[ptr - HeaderSize][i] # b
            /\ mem' = [mem EXCEPT ![ptr - HeaderSize][i] = b]
            /\ op' = "store"
            /\ argPtr' = NULL
            /\ argSize' = 0
            /\ ret' = NULL
            /\ justFreed' = NULL
            /\ UNCHANGED <<build, _start, _head, brk, hdr, fault, live, walk>>

Fresh ==
    /\ _start = NULL
    /\ _head = NULL
    /\ brk = HeapBase
    /\ hdr = <<>>
    /\ mem = <<>>
    /\ fault = FALSE
    /\ live = {}
    /\ op = "none"
    /\ argPtr = NULL
    /\ argSize = 0
    /\ ret = NULL
    /\ justFreed = NULL
    /\ walk = Idle

Init == build = "part_000" /\ Fresh

\* The allocator's calls alone: payloads keep the zeros sbrk gave them.
Next == Malloc \/ Calloc \/ Free \/ Realloc

Spec == Init /\ [][Next]_vars

\* The calls together with a caller that writes into its blocks.
NextStore == Next \/ Store

SpecStore == Init /\ [][NextStore]_vars

\* ================================================================== src/alloc.c
\* The printf diagnostics of src/alloc.c (lines 97, 118, 132, 165, 189, 199,
\* 201) write to stdout and read or write none of the allocator's state;
\* they are left out.

\* sizeof(metadata) in src/alloc.c: two 8-byte fields (size_t, pointer)
AllocHeaderSize == 16

AllocFreshHeader == [_size |-> 0, _next |-> NULL]

\* ------------------------------------------------------------------ malloc
\* Lines 93-98 and 130-133.
alloc_malloc_carve(S, data, size, first) ==
    IF data = SBRK_FAILED
    THEN Trap(S)
    ELSE Out([S EXCEPT
                !.hdr = data :> [AllocFreshHeader EXCEPT
                                    !._next = IF first THEN NULL ELSE @,
                                    !._size = size] @@ @,
                !.mem = data :> FreshBytes(size) @@ @],
             data + AllocHeaderSize)

alloc_malloc_sbrk(g, size, first) == alloc_malloc_carve(g.S, g.ret, size, first)

\* Lines 89-99.
alloc_malloc_first(S, size, ok) ==
    alloc_malloc_sbrk(sbrk([S EXCEPT !.start = sbrk(S, 0, TRUE).ret],
                           size + AllocHeaderSize, ok),
                      size, TRUE)

\* Lines 124-133.
alloc_malloc_grow(S, size, ok) ==
    alloc_malloc_sbrk(sbrk(S, size + AllocHeaderSize, ok), size, FALSE)

\* Lines 107-120 (the unlinking of lines 110-115 reads as in part_000).
alloc_malloc_take(S, size, curr, prevp) ==
    Out([pop(unlink(S, curr, prevp), curr) EXCEPT !.hdr[curr]._next = NULL],
        curr + AllocHeaderSize)

\* Lines 101-123.
RECURSIVE alloc_malloc_walk(_, _, _, _, _)
alloc_malloc_walk(S, size, ok, curr, prevp) ==
    IF curr = NULL THEN alloc_malloc_grow(S, size, ok)
    ELSE IF S.hdr[curr]._size >= size
         THEN alloc_malloc_take(S, size, curr, prevp)
         ELSE alloc_malloc_walk(S, size, ok, S.hdr[curr]._next, curr)

\* Lines 87-134.
alloc_malloc(S, size, ok) ==
    IF S.start = NULL THEN alloc_malloc_first(S, size, ok)
    ELSE alloc_malloc_walk(S, size, ok, S.head, NULL)

\* ------------------------------------------------------------------ calloc
alloc_memset(S, ptr, n) ==
    [S EXCEPT !.mem[ptr - AllocHeaderSize] =
        [i \in DOMAIN @ |-> IF i <= n THEN 0 ELSE @[i]]]

\* Lines 36-39.
alloc_calloc_fill(m, n) ==
    IF m.fault THEN m
    ELSE IF m.ret # NULL THEN Out(alloc_memset(m.S, m.ret, n), m.ret)
    ELSE m

\* Lines 31-40.
alloc_calloc(S, num, size, ok) ==
    alloc_calloc_fill(alloc_malloc(S, num * size, ok), num * size)

\* ------------------------------------------------------------------ free
\* Lines 172-200: the walk that looks for freed's place in address order.
\* When it runs off the end of the list, line 200 stores curr (NULL) into
\* the last link's _next.
RECURSIVE alloc_free_walk(_, _, _, _)
alloc_free_walk(S, freed, curr, prevp) ==
    IF curr = NULL
    THEN [S EXCEPT !.hdr[prevp]._next = curr]
    ELSE IF curr = S.head /\ curr > freed
    THEN [S EXCEPT !.hdr[freed]._next = curr, !.head = freed]
    ELSE IF prevp < freed /\ curr > freed
    THEN [S EXCEPT !.hdr[prevp]._next = freed, !.hdr[freed]._next = curr]
    ELSE alloc_free_walk(S, freed, S.hdr[curr]._next, curr)

\* Lines 153-203.
alloc_free(S, ptr) ==
    IF ptr = NULL THEN S
    ELSE IF S.head = NULL
    THEN [S EXCEPT !.head = ptr - AllocHeaderSize]
    ELSE alloc_free_walk(S, ptr - AllocHeaderSize, S.head, NULL)

\* ------------------------------------------------------------------ realloc
\* Lines 251-268.
alloc_realloc(S, ptr, size, ok) ==
    IF ptr = NULL THEN alloc_malloc(S, size, ok)
    ELSE IF size = 0 THEN Out(alloc_free(S, ptr), NULL)
    ELSE Out(S, NULL)

\* ------------------------------------------------------------------ actions
AllocMalloc ==
    \E size \in Sizes, ok \in BOOLEAN :
        /\ build = "alloc.c"
        /\ ~fault
        /\ Returned(alloc_malloc(Cur, size, ok), "malloc", NULL, size, {})

AllocCalloc ==
    \E num \in Sizes, size \in Sizes, ok \in BOOLEAN :
        /\ build = "alloc.c"
        /\ ~fault
        /\ num * size <= MaxSize
        /\ Returned(alloc_calloc(Cur, num, size, ok), "calloc", NULL, num * size, {})

AllocFree ==
    \E ptr \in live \cup {NULL} :
        /\ build = "alloc.c"
        /\ ~fault
        /\ Returned(Out(alloc_free(Cur, ptr), NULL), "free", ptr, 0, {ptr})

\* realloc(ptr, size) with size > 0 returns NULL and leaves ptr owned.
AllocRealloc ==
    \E ptr \in live \cup {NULL}, size \in Sizes, ok \in BOOLEAN :
        /\ build = "alloc.c"
        /\ ~fault
        /\ Returned(alloc_realloc(Cur, ptr, size, ok), "realloc", ptr, size,
                    IF size = 0 THEN {ptr} ELSE {})

InitAlloc == build = "alloc.c" /\ Fresh

NextAlloc == AllocMalloc \/ AllocCalloc \/ AllocFree \/ AllocRealloc

SpecAlloc == InitAlloc /\ [][NextAlloc]_vars

\* Either build.
InitBoth == Init \/ InitAlloc

NextBoth == Next \/ NextAlloc

SpecBoth == InitBoth /\ [][NextBoth]_vars

\* ================================================================== loops
\* The calls taken one turn of their loop at a time.  The loops are the
\* free-list walk of malloc (part_000 lines 105-124, alloc.c lines 104-123),
\* run by malloc, calloc and realloc, and the walk of alloc.c's free (lines
\* 172-190), run by free and by realloc(ptr, 0).

\* The call in progress ends in free(ptr).
Frees(w) == w.name = "free" \/ (w.name = "realloc" /\ w.ptr # NULL /\ w.size = 0)

\* alloc.c realloc(ptr, size) with both non-zero calls nothing (line 266).
Idles(w) == build = "alloc.c" /\ w.name = "realloc" /\ w.ptr # NULL /\ w.size # 0

\* The header free(ptr) is about to link, in alloc.c (line 160).
Freed(w) == w.ptr - AllocHeaderSize

\* The loop of the call in progress takes another turn: malloc's while(curr)
\* with curr too small (lines 105-108 / 104-107); alloc.c free's while(curr)
\* with neither place found (lines 172-185).
Continues(w) ==
    /\ w.curr # NULL
    /\ IF Frees(w)
       THEN /\ build = "alloc.c"
            /\ w.ptr # NULL
            /\ _head # NULL
            /\ ~(w.curr = _head /\ w.curr > Freed(w))
            /\ ~(w.prevp < Freed(w) /\ w.curr > Freed(w))
       ELSE /\ ~Idles(w)
            /\ _start # NULL
            /\ hdr[w.curr]._size < w.size

\* malloc(size), its walk taken up at curr with prev = prevp.
MallocFrom(w, ok) ==
    IF build = "alloc.c"
    THEN IF _start = NULL THEN alloc_malloc_first(Cur, w.size, ok)
         ELSE alloc_malloc_walk(Cur, w.size, ok, w.curr, w.prevp)
    ELSE IF _start = NULL THEN malloc_first(Cur, w.size, ok)
         ELSE malloc_walk(Cur, w.size, ok, w.curr, w.prevp)

\* free(ptr), the walk of alloc.c taken up at curr with prev = prevp.
FreeFrom(w) ==
    IF build = "alloc.c"
    THEN IF w.ptr = NULL THEN Cur
         ELSE IF _head = NULL THEN alloc_free(Cur, w.ptr)
         ELSE alloc_free_walk(Cur, Freed(w), w.curr, w.prevp)
    ELSE free(Cur, w.ptr)

\* What the call in progress hands back once its loop is over.
Finish(w, ok) ==
    IF Frees(w) THEN Out(FreeFrom(w), NULL)
    ELSE IF Idles(w) THEN Out(Cur, NULL)
    ELSE IF w.name = "calloc"
         THEN IF build = "alloc.c" THEN alloc_calloc_fill(MallocFrom(w, ok), w.size)
              ELSE calloc_fill(MallocFrom(w, ok), w.size)
    ELSE IF w.name = "realloc" /\ w.ptr # NULL
         THEN realloc_move(MallocFrom(w, ok), w.ptr, w.size)
    ELSE MallocFrom(w, ok)

\* The pointers the caller gives up when the call in progress returns.
GivenUp(w) ==
    IF w.name = "free" THEN {w.ptr}
    ELSE IF w.name = "realloc" /\ ~Idles(w) THEN {w.ptr}
    ELSE {}

\* A call is made: its loop, if it has one, starts at the head of the list
\* with nothing before it.  For calloc, size is the product num * size.
Enter ==
    \E name \in {"malloc", "calloc", "free", "realloc"},
       ptr \in live \cup {NULL}, size \in Sizes :
        /\ walk = Idle
        /\ ~fault
        /\ name \in {"malloc", "calloc"} => ptr = NULL
        /\ name = "free" => size = 0
        /\ walk' = [name |-> name, ptr |-> ptr, size |-> size,
                    curr |-> _head, prevp |-> NULL, seen |-> <<>>]
        /\ UNCHANGED <<build, _start, _head, brk, hdr, mem, fault, live,
                       op, argPtr, argSize, ret, justFreed>>

\* One turn of the loop: prev = curr; curr = curr->_next.
Step ==
    /\ walk # Idle
    /\ Continues(walk)
    /\ walk' = [walk EXCEPT !.curr = hdr[walk.curr]._next,
                            !.prevp = walk.curr,
                            !.seen = Append(@, walk.curr)]
    /\ UNCHANGED <<build, _start, _head, brk, hdr, mem, fault, live,
                   op, argPtr, argSize, ret, justFreed>>

\* The loop is over: the call does the rest of its work and returns.
Leave ==
    \E ok \in BOOLEAN :
        /\ walk # Idle
        /\ ~Continues(walk)
        /\ Returned(Finish(walk, ok), walk.name, walk.ptr, walk.size, GivenUp(walk))

NextWalk == Enter \/ Step \/ Leave

\* A call that was made runs: its loop takes its turns and the call returns.
SpecWalk == InitBoth /\ [][NextWalk]_vars /\ WF_vars(Step) /\ WF_vars(Leave)

\* ------------------------------------------------------------------ views
\* The header a payload pointer belongs to.
HeaderOf(p) == p - HeaderSize

\* The bytes a block's header and payload occupy.
HeaderBytes(h) == h .. (h + HeaderSize - 1)
PayloadBytes(H, h) == (h + HeaderSize) .. (h + HeaderSize + H[h]._size - 1)

\* The chain of headers reached from h through _next, cut after fuel links.
RECURSIVE ChainFrom(_, _, _)
ChainFrom(H, h, fuel) ==
    IF h = NULL \/ fuel = 0 \/ h \notin DOMAIN H THEN <<>>
    ELSE <<h>> \o ChainFrom(H, H[h]._next, fuel - 1)

\* The free list before and after a step.
FreeList == ChainFrom(hdr, _head, Cardinality(DOMAIN hdr) + 1)
FreeListAfter == ChainFrom(hdr', _head', Cardinality(DOMAIN hdr') + 1)
Range(s) == {s[i] : i \in DOMAIN s}

\* No block of the free list can hold size bytes (or the heap is empty):
\* malloc(size) has to call sbrk.
NoFit(size) ==
    _start = NULL \/ \A h \in Range(FreeList) : hdr[h]._size < size

\* A call that returned a block to the caller.
Handed == ~fault /\ ret # NULL /\ op \in {"malloc", "calloc", "realloc"}

\* ------------------------------------------------------------------ C1
\* Every pointer the caller owns has its header HeaderSize bytes before it,
\* inside the heap; headers do not overlap each other; the payloads of the
\* caller's blocks lie inside the heap, are pairwise disjoint and overlap
\* no header.
LiveBlocksApart ==
    /\ \A p \in live : HeaderOf(p) \in DOMAIN hdr
    /\ \A h \in DOMAIN hdr :
        /\ HeaderBytes(h) \cup PayloadBytes(hdr, h) \subseteq HeapBase .. (brk - 1)
        /\ \A g \in DOMAIN hdr : g # h => HeaderBytes(g) \cap HeaderBytes(h) = {}
    /\ \A p \in live :
        /\ \A q \in live :
            p # q => PayloadBytes(hdr, HeaderOf(p)) \cap PayloadBytes(hdr, HeaderOf(q)) = {}
        /\ \A h \in DOMAIN hdr : PayloadBytes(hdr, HeaderOf(p)) \cap HeaderBytes(h) = {}

\* A call never hands out a pointer the caller already owns (realloc may
\* hand back the pointer it was given).
HandsOutFresh ==
    (Handed' /\ ~(op' = "realloc" /\ ret' = argPtr')) => ret' \notin live

\* C1: after any sequence of malloc, calloc, realloc and free calls on live
\* pointers, the caller's payloads are pairwise disjoint, overlap no header,
\* each has exactly one header at the fixed offset before it, and no call
\* returns a payload the caller still owns.
C1_LivePayloadsDisjoint == [](LiveBlocksApart) /\ [][HandsOutFresh]_vars

\* Two blocks owned at once, one of them a reused free block.
C1_Witness ==
    /\ Handed /\ op = "malloc"
    /\ Cardinality(live) >= 2
    /\ hdr[HeaderOf(ret)]._data_size < hdr[HeaderOf(ret)]._size

\* ------------------------------------------------------------------ C2
\* C2: free(A) on a live block A of capacity c, immediately followed by
\* malloc(s) with s <= c, returns A and leaves the break where it was.
C2_ReuseDeterminism ==
    [][(/\ op = "free" /\ argPtr # NULL
        /\ op' = "malloc"
        /\ argSize' <= hdr[HeaderOf(argPtr)]._size)
       => (ret' = argPtr /\ brk' = brk)]_vars

\* malloc(s) just returned the block the call before it released, with
\* s below its capacity, while another block was already in the free list.
C2_Witness ==
    /\ op = "malloc"
    /\ justFreed # NULL
    /\ ret = justFreed
    /\ argSize < hdr[HeaderOf(ret)]._size
    /\ _head # NULL

\* ------------------------------------------------------------------ C3
\* C3: malloc(size) never returns a block of capacity below size; when no
\* free block has capacity >= size it grows the heap by the block, returns
\* a pointer that is the payload of no block carved before, and leaves the
\* free list (head and every header carved before) as it was.
C3_NoReuseOnOversize ==
    [][(op' = "malloc" /\ Handed')
       => /\ hdr'[HeaderOf(ret')]._size >= argSize'
          /\ NoFit(argSize')
             => /\ brk' = brk + argSize' + HeaderSize
                /\ HeaderOf(ret') \notin DOMAIN hdr
                /\ _head' = _head
                /\ \A h \in DOMAIN hdr : hdr'[h] = hdr[h]]_vars

\* malloc grew the heap although the free list held a (too small) block.
C3_Witness ==
    /\ op = "malloc" /\ Handed
    /\ _head # NULL
    /\ \A h \in Range(FreeList) : hdr[h]._size < argSize
    /\ ret + argSize = brk

\* ------------------------------------------------------------------ C4
\* C4 (as claimed): realloc(A, n) on a live block A of capacity c, with
\* 0 < n <= c, returns A, and the first n payload bytes are what they were.
C4_InPlaceShrink ==
    [][(/\ op' = "realloc" /\ Handed'
        /\ argPtr' # NULL
        /\ argSize' > 0
        /\ argSize' <= hdr[HeaderOf(argPtr')]._size)
       => /\ ret' = argPtr'
          /\ \A i \in 1..argSize' :
                mem'[HeaderOf(ret')][i] = mem[HeaderOf(argPtr')][i]]_vars

\* ------------------------------------------------------------------ C5
\* C5: realloc(A, n) on a live block A of requested size r and capacity c,
\* with n > c, returns A2 # A, a block of capacity >= n whose first
\* min(r, n) payload bytes are A's bytes before the call; afterwards A's
\* block is in the free list and A2's block is not.
C5_MoveAndCopy ==
    [][(/\ op' = "realloc" /\ Handed'
        /\ argPtr' # NULL
        /\ argSize' > hdr[HeaderOf(argPtr')]._size)
       => /\ ret' # argPtr'
          /\ HeaderOf(ret') \in DOMAIN hdr'
          /\ hdr'[HeaderOf(ret')]._size >= argSize'
          /\ \A i \in 1..min(hdr[HeaderOf(argPtr')]._data_size, argSize') :
                mem'[HeaderOf(ret')][i] = mem[HeaderOf(argPtr')][i]
          /\ HeaderOf(argPtr') \in Range(FreeListAfter)
          /\ HeaderOf(ret') \notin Range(FreeListAfter)
          /\ ret' \in live' /\ argPtr' \notin live']_vars

\* realloc moved a block whose first byte was non-zero into a larger one:
\* the new block starts with that byte and the old block heads the free list.
C5_Witness ==
    /\ op = "realloc" /\ Handed
    /\ argPtr # NULL
    /\ hdr[HeaderOf(argPtr)]._size >= 1
    /\ argSize > hdr[HeaderOf(argPtr)]._size
    /\ ret # argPtr
    /\ mem[HeaderOf(ret)][1] = 1
    /\ _head = HeaderOf(argPtr)

\* ------------------------------------------------------------------ C6
\* The call needed sbrk (no free block fits) and the break did not move:
\* sbrk failed during the call.
SbrkFailedIn(size) == NoFit(size) /\ brk' = brk

\* C6 (as claimed): when sbrk fails during malloc(size), malloc returns
\* NULL and leaves every header, the free list and the heap origin as
\* they were; no header is built over the region the failed sbrk returned.
C6_FailureLeavesStateAlone ==
    [][(op' = "malloc" /\ SbrkFailedIn(argSize'))
       => /\ ~fault'
          /\ ret' = NULL
          /\ hdr' = hdr
          /\ _head' = _head
          /\ _start' = _start]_vars

\* ------------------------------------------------------------------ C7
\* C7 (as claimed): when realloc(p, n), p live and n > 0, needs a new block
\* and sbrk fails, realloc returns NULL, p stays owned and out of the free
\* list, and p's header and payload are as they were.
C7_FailedResizeKeepsBlock ==
    [][(/\ op' = "realloc"
        /\ argPtr' # NULL
        /\ argSize' > hdr[HeaderOf(argPtr')]._size
        /\ SbrkFailedIn(argSize'))
       => /\ ~fault'
          /\ ret' = NULL
          /\ argPtr' \in live'
          /\ HeaderOf(argPtr') \notin Range(FreeListAfter)
          /\ hdr'[HeaderOf(argPtr')] = hdr[HeaderOf(argPtr')]
          /\ mem'[HeaderOf(argPtr')] = mem[HeaderOf(argPtr')]]_vars

\* ------------------------------------------------------------------ C8
\* The region calloc returned is all zero.
ZeroFilled ==
    (op = "calloc" /\ Handed)
        => \A i \in 1..argSize : mem[HeaderOf(ret)][i] = 0

\* A calloc whose malloc failed ends as that malloc ends and stores nothing.
CallocFailsAsMalloc ==
    (op' = "calloc" /\ ~Handed')
        => /\ mem' = mem
           /\ hdr' = hdr
           /\ fault' = malloc(Cur, argSize', FALSE).fault
           /\ ret' = malloc(Cur, argSize', FALSE).ret

EndsAs(r) ==
    /\ Cur' = r.S
    /\ ret' = r.ret
    /\ fault' = r.fault

\* malloc(size) and free(ptr) of the build linked in, on the current state.
MallocOf(size, ok) ==
    IF build = "alloc.c" THEN alloc_malloc(Cur, size, ok) ELSE malloc(Cur, size, ok)

FreeOf(ptr) ==
    IF build = "alloc.c" THEN alloc_free(Cur, ptr) ELSE free(Cur, ptr)

\* C9: in either build, realloc(NULL, n) returns what malloc(n) returns and
\* leaves the state malloc(n) leaves; realloc(p, 0) on a live p returns NULL
\* and leaves the state free(p) leaves.
C9_ResizeEdgeCases ==
    [][op' = "realloc"
       => /\ argPtr' = NULL
             => \E ok \in BOOLEAN : EndsAs(MallocOf(argSize', ok))
          /\ (argPtr' # NULL /\ argSize' = 0)
             => /\ EndsAs(Out(FreeOf(argPtr'), NULL))
                /\ ret' = NULL]_vars

\* realloc(p, 0) pushed p's block in front of a block already free.
C9_Witness ==
    /\ op = "realloc"
    /\ argPtr # NULL
    /\ argSize = 0
    /\ ret = NULL
    /\ _head = HeaderOf(argPtr)
    /\ hdr[_head]._next # NULL

\* ------------------------------------------------------------------ C10
\* C10: in either build, free(NULL) changes nothing (free-list head, headers, heap origin,
\* break, payloads, the caller's pointers) and does not fail.
C10_FreeNullNoOp ==
    [][(op' = "free" /\ argPtr' = NULL)
       => /\ ~fault'
          /\ UNCHANGED <<_start, _head, brk, hdr, mem, live>>]_vars

\* free(NULL) was called with a block in the free list and one owned.
C10_Witness ==
    /\ op = "free"
    /\ argPtr = NULL
    /\ _head # NULL
    /\ live # {}

\* ------------------------------------------------------------------ C11
\* The header a payload pointer belongs to, in the src/alloc.c build.
AllocHeaderOf(p) == p - AllocHeaderSize

\* The list s with header h put at its place in address order.
InsertOrdered(s, h) ==
    SelectSeq(s, LAMBDA g : g < h) \o <<h>> \o SelectSeq(s, LAMBDA g : g > h)

\* C11: in src/alloc.c, free(p) on a live block links the block's header
\* into the free list at its place in address order, wherever p lies (also
\* above every block of the list), and leaves the rest of the list as it was.
C11_FreeLinksInOrder ==
    [][(build = "alloc.c" /\ op' = "free" /\ argPtr' # NULL)
       => FreeListAfter = InsertOrdered(FreeList, AllocHeaderOf(argPtr'))]_vars

\* ------------------------------------------------------------------ C12
\* The places of the free list whose block can hold size bytes.
Fits(size) == {i \in DOMAIN FreeList : hdr[FreeList[i]]._size >= size}

\* The first of them in list order.
FirstFit(size) == CHOOSE i \in Fits(size) : \A j \in Fits(size) : i <= j

\* The sequence s without its i-th element.
Without(s, i) == [j \in 1..(Len(s) - 1) |-> IF j < i THEN s[j] ELSE s[j + 1]]

\* C12: once the heap is initialised, malloc(size) (alone or inside calloc)
\* returns the first block in free-list order whose _size >= size, whatever
\* fits further down the list; the block leaves the list, its _next is
\* cleared, its _data_size becomes size, its _size stays, the break stays,
\* and the other free blocks keep their order.
C12_FirstFit ==
    [][(/\ op' \in {"malloc", "calloc"}
        /\ _start # NULL
        /\ Fits(argSize') # {})
       => /\ ~fault'
          /\ ret' = FreeList[FirstFit(argSize')] + HeaderSize
          /\ FreeListAfter = Without(FreeList, FirstFit(argSize'))
          /\ hdr'[HeaderOf(ret')]._next = NULL
          /\ hdr'[HeaderOf(ret')]._data_size = argSize'
          /\ hdr'[HeaderOf(ret')]._size = hdr[HeaderOf(ret')]._size
          /\ brk' = brk]_vars

\* malloc skipped a head that was too small and took a block larger than
\* asked for while a tighter fit stayed in the list behind it.
C12_Witness ==
    /\ op = "malloc"
    /\ Handed
    /\ _head # NULL
    /\ hdr[_head]._size < argSize
    /\ hdr[HeaderOf(ret)]._size > argSize
    /\ \E g \in Range(FreeList) :
        hdr[g]._size >= argSize /\ hdr[g]._size < hdr[HeaderOf(ret)]._size

C14_FreeListIntegrity ==
    /\ \A i \in DOMAIN FreeList : \A j \in DOMAIN FreeList :
            i # j => FreeList[i] # FreeList[j]
    /\ Range(FreeList) \subseteq DOMAIN hdr
    /\ _head # NULL => hdr[FreeList[Len(FreeList)]]._next = NULL
    /\ \A p \in live : HeaderOf(p) \notin Range(FreeList)

\* realloc moved a block: the caller owns the new one while the old one
\* sits in front of another free block.
C14_Witness ==
    /\ op = "realloc"
    /\ Handed
    /\ argPtr # NULL
    /\ ret # argPtr
    /\ ret \in live
    /\ _head = HeaderOf(argPtr)
    /\ Len(FreeList) >= 2

\* ------------------------------------------------------------------ C15
\* realloc(p, n) was called on a live p with _data_size(p) <= n <= _size(p).
ResizedInPlace ==
    /\ op' = "realloc"
    /\ argPtr' # NULL
    /\ argSize' # 0
    /\ hdr[HeaderOf(argPtr')]._data_size <= argSize'
    /\ argSize' <= hdr[HeaderOf(argPtr')]._size

\* C15: realloc(p, n) with p live and _data_size(p) <= n <= _size(p) sets
\* _data_size(p) to n, returns p, and leaves _head, every link, the break
\* and every other header as they were: no block is allocated or carved.
C15_InPlaceNoSideEffects ==
    [][ResizedInPlace
       => /\ ~fault'
          /\ ret' = argPtr'
          /\ hdr' = [hdr EXCEPT ![HeaderOf(argPtr')]._data_size = argSize']
          /\ _head' = _head
          /\ brk' = brk]_vars

\* ------------------------------------------------------------------ C16
\* C16: in every reachable state each block carved from the heap is either
\* owned by the caller or reachable from _head, and never both.
C16_BlockConservation ==
    \A h \in DOMAIN hdr :
        (h + HeaderSize \in live) # (h \in Range(FreeList))

\* ------------------------------------------------------------------ C17
\* The headers a step added to the heap.
Carved == DOMAIN hdr' \ DOMAIN hdr

\* A step that adds a block adds one, at the old break, moves the break by
\* exactly the size asked for plus HeaderSize, and leaves the block's header
\* with _size = _data_size = that size and _next = NULL; a step that adds no
\* block leaves the break alone; no step lowers the break.
CarvesExactly ==
    /\ brk' >= brk
    /\ Carved = {} => brk' = brk
    /\ Carved # {} =>
        /\ op' \in {"malloc", "calloc", "realloc"}
        /\ Carved = {brk}
        /\ brk' = brk + argSize' + HeaderSize
        /\ hdr'[brk] = [_size |-> argSize', _data_size |-> argSize', _next |-> NULL]

\* Every block outside the free list has _next = NULL.
UnlinkedHaveNoLink ==
    \A h \in DOMAIN hdr : h \notin Range(FreeList) => hdr[h]._next = NULL

RequestedWithinCapacity ==
    \A p \in live : hdr[HeaderOf(p)]._data_size <= hdr[HeaderOf(p)]._size

\* No step removes a block or changes the _size of a block that exists.
CapacityFixed ==
    /\ DOMAIN hdr \subseteq DOMAIN hdr'
    /\ \A h \in DOMAIN hdr : hdr'[h]._size = hdr[h]._size

\* C18: after any sequence of malloc, calloc, realloc and free calls every
\* block the caller owns has _data_size <= _size, and the _size of a block
\* never changes once the block exists (reuse and in-place realloc change
\* _data_size only).
C18_CapacityBounds == [](RequestedWithinCapacity) /\ [][CapacityFixed]_vars

\* A block of capacity 2 was reused for a smaller request and then grown
\* in place by realloc, still below its capacity.
C18_Witness ==
    /\ op = "realloc"
    /\ Handed
    /\ ret = argPtr
    /\ argSize > 0
    /\ hdr[HeaderOf(ret)]._data_size = argSize
    /\ hdr[HeaderOf(ret)]._size > argSize

\* ------------------------------------------------------------------ C19
\* A call is in progress.
Walking == walk # Idle

\* The loop of the call in progress has visited no block twice, is not
\* standing on a block it has visited, and has taken no more turns than
\* there are blocks.
NoRevisit ==
    /\ \A i \in DOMAIN walk.seen : \A j \in DOMAIN walk.seen :
            i # j => walk.seen[i] # walk.seen[j]
    /\ walk.curr \notin Range(walk.seen)
    /\ Len(walk.seen) <= Cardinality(DOMAIN hdr)

\* C19: every call ends.  With free and realloc given owned pointers only,
\* the free-list walk of malloc (and, in src/alloc.c, of free) visits each
\* block at most once, and every malloc, calloc, realloc and free that is
\* called is over after a bounded number of turns, from every reachable
\* state.
C19_CallsTerminate == [](NoRevisit) /\ (Walking ~> ~Walking)

\* malloc's walk went through a free list of three blocks and fell off
\* its end.
C19_Witness ==
    /\ walk.name = "malloc"
    /\ Len(walk.seen) = 3
    /\ walk.curr = NULL
    /\ walk.seen = FreeList

====
